---- MODULE Spec2Model ----
(***************************************************************************)
(* bevy_tiled, src/map.rs: the map compiler (Map::try_from_bytes) and the  *)
(* scene reconciler (process_loaded_tile_maps).                            *)
(*                                                                         *)
(* Conventions of the model.                                               *)
(*  - Vec<T> is a sequence; Rust index i is TLA+ index i + 1.              *)
(*  - Option<T>: None is <<>>, Some(v) is <<v>>.                           *)
(*  - World coordinates (Tile.vertex, mesh positions) are f32 in the code  *)
(*    and hold integers or half-integers; the model stores them            *)
(*    multiplied by WorldScale = 2, so every value is an integer.          *)
(*  - UV coordinates are f32 quotients by the texture extent; the model    *)
(*    stores the numerator in texels (u * texture_width,                   *)
(*    v * texture_height), so u is in [0,1] iff 0 <= numerator <= extent.  *)
(***************************************************************************)
EXTENDS Integers, Sequences, FiniteSets, TLC

\* ------------------------------------------------------------------------
\* Option<T>
NoneOpt == <<>>
SomeOpt(v) == <<v>>
IsSome(o) == o # <<>>
Unwrap(o) == o[1]
UnwrapOr(o, d) == IF o = <<>> THEN d ELSE o[1]

\* ------------------------------------------------------------------------
\* Program constants
target_chunk_x == 32
target_chunk_y == 32
WorldScale == 2
FlagBits == 536870912
z_relative_to_map == 15
z_slope == 2000

\* ------------------------------------------------------------------------
\* Coordinate projector (world coordinates scaled by WorldScale)
project_ortho(pos, tile_width, tile_height) ==
    LET x == tile_width * pos[1]
        y == tile_height * pos[2]
    IN  <<WorldScale * x, -(WorldScale * y)>>

project_iso(pos, tile_width, tile_height) ==
    LET x == (pos[1] - pos[2]) * tile_width      \* ... / 2.0, times WorldScale
        y == (pos[1] + pos[2]) * tile_height
    IN  <<x, -y>>

\* f32 quotients of integers as fractions <<numerator, denominator>> with a
\* positive denominator
Frac(n, d) == IF d > 0 THEN <<n, d>> ELSE <<-n, -d>>
FracAdd(a, b) == <<a[1] * b[2] + b[1] * a[2], a[2] * b[2]>>
FracSub(a, b) == <<a[1] * b[2] - b[1] * a[2], a[2] * b[2]>>
FracHalf(a) == <<a[1], 2 * a[2]>>
FracIs(a, n) == a[1] = n * a[2]
\* f32::round: to the nearest integer, halves away from zero
FracRound(a) ==
    IF a[1] >= 0 THEN (2 * a[1] + a[2]) \div (2 * a[2])
    ELSE -((2 * (-a[1]) + a[2]) \div (2 * a[2]))

\* pos is a world position scaled by WorldScale; the result is in grid units
unproject_ortho(pos, tile_width, tile_height) ==
    LET x == Frac(pos[1], WorldScale * tile_width)
        y == Frac(-pos[2], WorldScale * tile_height)
    IN  <<x, y>>

\* the inverse without the sign change of pos.y, against unproject_iso below
unproject_iso_Unsigned(pos, tile_width, tile_height) ==
    LET over_half_width == Frac(pos[1], tile_width)
        over_half_height == Frac(pos[2], tile_height)
        x == FracHalf(FracAdd(over_half_width, over_half_height))
        y == FracHalf(FracSub(over_half_height, over_half_width))
    IN  <<FracRound(x), FracRound(y)>>

unproject_iso(pos, tile_width, tile_height) ==
    LET over_half_width == Frac(pos[1], tile_width)     \* pos.x / half_width
        over_half_height == Frac(-pos[2], tile_height)  \* -(pos.y) / half_height
        x == FracHalf(FracAdd(over_half_width, over_half_height))
        y == FracHalf(FracSub(over_half_height, over_half_width))
    IN  <<FracRound(x), FracRound(y)>>

\* TiledMapLoader::remove_tile_flags: clears the three flip bits (31..29)
remove_tile_flags(tile) == tile % FlagBits

\* ------------------------------------------------------------------------
\* Input map description (tiled::Map): the cell grid of a finite layer is
\* given by the cells that differ from the blank cell.
BlankLayerTile == [gid |-> 0, flip_h |-> FALSE, flip_v |-> FALSE, flip_d |-> FALSE]

\* tiles[lookup_y][lookup_x] of a tiled::LayerData::Finite layer
LayerTileAt(layer, lookup_x, lookup_y) ==
    IF <<lookup_x, lookup_y>> \in DOMAIN layer.cells
    THEN layer.cells[<<lookup_x, lookup_y>>]
    ELSE BlankLayerTile

\* ------------------------------------------------------------------------
\* Tileset index resolver: HashMap<u32, u32> as a function on its key set.
\* HashMap::insert overwrites the value of a key already present.
\* HashInsertKeep is the other insert, which keeps the value of a key
\* already present (HashMap::entry(k).or_insert(v)).
HashInsertKeep(h, k, v) == [x \in DOMAIN h \cup {k} |-> IF x \in DOMAIN h THEN h[x] ELSE v]
HashInsert(h, k, v) == [x \in DOMAIN h \cup {k} |-> IF x = k THEN v ELSE h[x]]
HashGet(h, k) == IF k \in DOMAIN h THEN SomeOpt(h[k]) ELSE NoneOpt
EmptyHash == <<>>

\* the inclusive range first..=end, against the half-open first..end below
RECURSIVE InsertRangeInclusive(_, _, _, _)
InsertRangeInclusive(h, i, end, first_gid) ==
    IF i > end THEN h
    ELSE InsertRangeInclusive(HashInsert(h, i, first_gid), i + 1, end, first_gid)

RECURSIVE InsertRange(_, _, _, _)
InsertRange(h, i, end, first_gid) ==
    IF i >= end THEN h
    ELSE InsertRange(HashInsert(h, i, first_gid), i + 1, end, first_gid)

\* one iteration of the loop over map.tilesets
InsertTileset(h, tileset) ==
    InsertRange(h, tileset.first_gid,
                tileset.first_gid + UnwrapOr(tileset.tilecount, 1),
                tileset.first_gid)

RECURSIVE BuildTileGids(_, _)
BuildTileGids(tilesets, h) ==
    IF tilesets = <<>> THEN h
    ELSE BuildTileGids(Tail(tilesets), InsertTileset(h, Head(tilesets)))

\* ------------------------------------------------------------------------
\* Object graph builder
ObjectNew(original_object) ==
    [shape |-> original_object.shape,
     gid |-> original_object.gid,
     visible |-> original_object.visible,
     tileset_gid |-> NoneOpt,
     sprite_index |-> NoneOpt,
     position |-> <<original_object.x, original_object.y>>]

\* set_tile_ids with the raw gid as sprite index, against set_tile_ids below
set_tile_ids_RawIndex(o, tile_gids) ==
    LET tileset_gid == HashGet(tile_gids, o.gid)
    IN  [o EXCEPT !.tileset_gid = tileset_gid,
                  !.sprite_index = IF IsSome(tileset_gid) THEN SomeOpt(o.gid) ELSE NoneOpt]

is_shape(o) == ~IsSome(o.tileset_gid)

set_tile_ids(o, tile_gids) ==
    LET tileset_gid == HashGet(tile_gids, o.gid)
    IN  [o EXCEPT !.tileset_gid = tileset_gid,
                  !.sprite_index = IF IsSome(tileset_gid)
                                   THEN SomeOpt(o.gid - Unwrap(tileset_gid))
                                   ELSE NoneOpt]

ObjectNewWithTileIds(original_object, tile_gids) ==
    set_tile_ids(ObjectNew(original_object), tile_gids)

ObjectGroupNewWithTileIds(inner, tile_gids) ==
    [visible |-> inner.visible,
     objects |-> [i \in 1..Len(inner.objects) |->
                     ObjectNewWithTileIds(inner.objects[i], tile_gids)]]

BuildGroups(map, tile_gids) ==
    [g \in 1..Len(map.object_groups) |->
        ObjectGroupNewWithTileIds(map.object_groups[g], tile_gids)]

\* Object::dimensions
dimensions(o) ==
    IF o.shape.kind \in {"Rect", "Ellipse"}
    THEN SomeOpt(<<o.shape.width, o.shape.height>>)
    ELSE SomeOpt(<<1, 1>>)

\* A map transform is [translation |-> <<x, y, z>>, scale |-> <<sx, sy, sz>>]
\* of integers, x and y held times WorldScale.  The Transform of an object
\* has a fraction for z and for each scale component.  The rotation is
\* cloned from the map transform and left out.
CloneTransform(map_transform) ==
    [translation |-> <<map_transform.translation[1],
                       map_transform.translation[2],
                       Frac(map_transform.translation[3], 1)>>,
     scale |-> [k \in 1..3 |-> Frac(map_transform.scale[k], 1)]]

\* the transform without the half extent, against transform_from_map below
transform_from_map_TopLeft(o, map, map_transform, tile_scale) ==
    LET transform == CloneTransform(map_transform)
    IN  [transform EXCEPT
            !.translation =
                <<@[1] + WorldScale * o.position[1] * map_transform.scale[1],
                  @[2] - WorldScale * o.position[2] * map_transform.scale[2],
                  @[3]>>]

\* Object::transform_from_map; "panic" when it panics
transform_from_map(o, map, map_transform, tile_scale) ==
    LET transform == CloneTransform(map_transform)
    IN  IF o.shape.kind = "Rect"
        THEN IF map.orientation = "Orthogonal"
             THEN LET width == o.shape.width
                      height == o.shape.height
                      \* center_offset, times WorldScale
                      at_corner == <<WorldScale * o.position[1],
                                     -(WorldScale * o.position[2])>>
                      half == IF tile_scale = NoneOpt
                              THEN <<width, -height>>
                              ELSE <<width, height>>
                      center_offset ==
                          <<(at_corner[1] + half[1]) * map_transform.scale[1],
                            (at_corner[2] + half[2]) * map_transform.scale[2]>>
                      scale == IF tile_scale = NoneOpt THEN transform.scale
                               ELSE [k \in 1..3 |->
                                       Frac(Unwrap(tile_scale)[k][1]
                                                * map_transform.scale[k],
                                            Unwrap(tile_scale)[k][2])]
                  IN  [translation |->
                          <<transform.translation[1] + center_offset[1],
                            transform.translation[2] + center_offset[2],
                            FracAdd(transform.translation[3],
                                    FracSub(Frac(z_relative_to_map, 1),
                                            Frac(center_offset[2],
                                                 WorldScale * z_slope)))>>,
                       scale |-> scale]
             ELSE "panic"
        ELSE transform

\* lines 549-562 of Object::spawn: the tile scale of a tile object
SpawnTileScale(o, map) ==
    LET found == SelectSeq(map.tilesets,
                           LAMBDA ts : ts.first_gid = Unwrap(o.tileset_gid))
        dims == dimensions(o)
    IN  IF found # <<>> /\ IsSome(dims)
        THEN SomeOpt(<<Frac(Unwrap(dims)[1], found[1].tile_width),
                       Frac(Unwrap(dims)[2], found[1].tile_height),
                       Frac(1, 1)>>)
        ELSE NoneOpt

\* the transform Object::spawn gives the entity: of the sprite when it is
\* handed an atlas, of the debug box otherwise
SpawnTransform(o, has_atlas, map, tile_map_transform) ==
    IF has_atlas
    THEN transform_from_map(o, map, tile_map_transform, SpawnTileScale(o, map))
    ELSE transform_from_map(o, map, tile_map_transform, NoneOpt)

\* ------------------------------------------------------------------------
\* Chunk builder
CeilDiv(a, b) == (a + b - 1) \div b
Max(a, b) == IF a >= b THEN a ELSE b

\* the quotient without .max(1.0), against chunk_size_x below
chunk_size_x_NoMin(map) == CeilDiv(map.width, target_chunk_x)
chunk_size_x(map) == Max(CeilDiv(map.width, target_chunk_x), 1)
chunk_size_y(map) == Max(CeilDiv(map.height, target_chunk_y), 1)

EmptyTile(tile_x, tile_y) ==
    [tile_id |-> 0,
     pos |-> <<tile_x, tile_y>>,
     vertex |-> <<0, 0, 0, 0>>,
     uv |-> <<0, 0, 0, 0>>,
     flip_d |-> FALSE, flip_h |-> FALSE, flip_v |-> FALSE]

\* columns of the sprite sheet ("account for no end tile")
SheetColumns(tileset) ==
    LET image == tileset.images[1]
    IN  (image.width + tileset.spacing) \div (tileset.tile_width + tileset.spacing)

sprite_sheet_x(tileset, tile) ==
    (tile % SheetColumns(tileset)) * (tileset.tile_width + tileset.spacing)
        - tileset.spacing

sprite_sheet_y(tileset, tile) ==
    (tile \div SheetColumns(tileset)) * (tileset.tile_height + tileset.spacing)
        - tileset.spacing

\* the vertex rect without the spacing, against VertexRect below
VertexRectNoSpacing(orientation, tileset, lookup_x, lookup_y) ==
    LET center == IF orientation = "Orthogonal"
                  THEN project_ortho(<<lookup_x, lookup_y>>,
                                     tileset.tile_width, tileset.tile_height)
                  ELSE project_iso(<<lookup_x, lookup_y>>,
                                   tileset.tile_width, tileset.tile_height)
        half_width == IF orientation = "Orthogonal" THEN 0 ELSE tileset.tile_width
    IN  <<center[1] - half_width,
          center[2] - WorldScale * tileset.tile_height,
          center[1] + (IF orientation = "Orthogonal"
                       THEN WorldScale * tileset.tile_width ELSE half_width),
          center[2]>>

\* (start_x, start_y, end_x, end_y), scaled by WorldScale
VertexRect(orientation, tileset, lookup_x, lookup_y) ==
    IF orientation = "Orthogonal"
    THEN LET center == project_ortho(<<lookup_x, lookup_y>>,
                                     tileset.tile_width, tileset.tile_height)
         IN  <<center[1],
               center[2] - WorldScale * tileset.tile_height
                         - WorldScale * tileset.spacing,
               center[1] + WorldScale * tileset.tile_width
                         + WorldScale * tileset.spacing,
               center[2]>>
    ELSE LET center == project_iso(<<lookup_x, lookup_y>>,
                                   tileset.tile_width, tileset.tile_height)
         IN  <<center[1] - tileset.tile_width,
               center[2] - WorldScale * tileset.tile_height,
               center[1] + tileset.tile_width,
               center[2]>>

\* (start_u, start_v, end_u, end_v) as texel numerators
UvRect(tileset, tile) ==
    <<sprite_sheet_x(tileset, tile),
      sprite_sheet_y(tileset, tile),
      sprite_sheet_x(tileset, tile) + tileset.tile_width,
      sprite_sheet_y(tileset, tile) + tileset.tile_height>>

InTilesetRange(tileset, tile) ==
    ~(tile < tileset.first_gid
      \/ tile >= tileset.first_gid + Unwrap(tileset.tilecount))

\* The body of the innermost loop: the tiles pushed to tiles_y for one
\* (tile_x, tile_y): <<tile>>, or <<>> when the body ends in `continue`.
ChunkTile(map, layer, tileset, chunk_x, chunk_y, tile_x, tile_y) ==
    LET lookup_x == (chunk_x * target_chunk_x) + tile_x
        lookup_y == (chunk_y * target_chunk_y) + tile_y
    IN  IF lookup_x < map.width /\ lookup_y < map.height
        THEN LET map_tile == LayerTileAt(layer, lookup_x, lookup_y)
             IN  IF ~InTilesetRange(tileset, map_tile.gid)
                 THEN <<>>
                 ELSE LET tile == remove_tile_flags(map_tile.gid) - tileset.first_gid
                      IN  <<[tile_id |-> map_tile.gid,
                             pos |-> <<tile_x, tile_y>>,
                             vertex |-> VertexRect(map.orientation, tileset,
                                                   lookup_x, lookup_y),
                             uv |-> UvRect(tileset, tile),
                             flip_d |-> map_tile.flip_d,
                             flip_h |-> map_tile.flip_h,
                             flip_v |-> map_tile.flip_v]>>
        ELSE <<EmptyTile(tile_x, tile_y)>>

RECURSIVE TilesY(_, _, _, _, _, _, _)
TilesY(map, layer, tileset, chunk_x, chunk_y, tile_x, tile_y) ==
    IF tile_y >= target_chunk_y THEN <<>>
    ELSE ChunkTile(map, layer, tileset, chunk_x, chunk_y, tile_x, tile_y)
         \o TilesY(map, layer, tileset, chunk_x, chunk_y, tile_x, tile_y + 1)

BuildChunk(map, layer, tileset, chunk_x, chunk_y) ==
    [position |-> <<chunk_x, chunk_y>>,
     tiles |-> [tx \in 1..target_chunk_x |->
                  TilesY(map, layer, tileset, chunk_x, chunk_y, tx - 1, 0)]]

BuildTilesetLayer(map, layer, tileset) ==
    [tile_size |-> <<tileset.tile_width, tileset.tile_height>>,
     chunks |-> [cx \in 1..chunk_size_x(map) |->
                   [cy \in 1..chunk_size_y(map) |->
                      BuildChunk(map, layer, tileset, cx - 1, cy - 1)]],
     tileset_guid |-> tileset.first_gid]

BuildLayer(map, layer) ==
    [tileset_layers |-> [t \in 1..Len(map.tilesets) |->
                            BuildTilesetLayer(map, layer, map.tilesets[t])]]

VisibleLayers(map) == SelectSeq(map.layers, LAMBDA l : l.visible)

BuildLayers(map) ==
    LET vis == VisibleLayers(map)
    IN  [l \in 1..Len(vis) |-> BuildLayer(map, vis[l])]

\* The panics the layer loop can reach: a tileset without image, a layer that
\* is not tiled::LayerData::Finite, tilecount.unwrap() on None (evaluated only
\* when tile >= first_gid), an orientation other than Orthogonal / Isometric
\* (evaluated only for a tile in the tileset's range).
CellPanics(map, layer, tileset, lookup_x, lookup_y) ==
    \/ layer.kind # "Finite"
    \/ LET tile == LayerTileAt(layer, lookup_x, lookup_y).gid
       IN  IF tile < tileset.first_gid THEN FALSE
           ELSE IF ~IsSome(tileset.tilecount) THEN TRUE
           ELSE /\ InTilesetRange(tileset, tile)
                /\ map.orientation \notin {"Orthogonal", "Isometric"}

BuildLayersPanics(map) ==
    \E l \in 1..Len(map.layers), t \in 1..Len(map.tilesets) :
        /\ map.layers[l].visible
        /\ \/ map.tilesets[t].images = <<>>
           \/ \E lookup_x \in 0..(map.width - 1), lookup_y \in 0..(map.height - 1) :
                 CellPanics(map, map.layers[l], map.tilesets[t], lookup_x, lookup_y)

\* ------------------------------------------------------------------------
\* Mesh assembler
Swap(s, a, b) ==
    [k \in 1..Len(s) |-> IF k = a + 1 THEN s[b + 1]
                         ELSE IF k = b + 1 THEN s[a + 1] ELSE s[k]]
Reverse(s) == [k \in 1..Len(s) |-> s[Len(s) + 1 - k]]

\* the diagonal flip with swap(1, 3), against FlipD below
FlipDSwap13(uvs, tile) == IF tile.flip_d THEN Swap(uvs, 1, 3) ELSE uvs
FlipD(uvs, tile) == IF tile.flip_d THEN Swap(uvs, 0, 2) ELSE uvs
FlipH(uvs, tile) == IF tile.flip_h THEN Reverse(uvs) ELSE uvs
\* the vertical flip without swap(1, 3), against FlipV below
FlipVOneSwap(uvs, tile) ==
    IF tile.flip_v THEN Swap(Reverse(uvs), 0, 2) ELSE uvs
FlipV(uvs, tile) ==
    IF tile.flip_v THEN Swap(Swap(Reverse(uvs), 0, 2), 1, 3) ELSE uvs

\* the unflipped corner order: (x,w), (x,y), (z,y), (z,w) of tile.uv
UvCorners(uv) ==
    << <<uv[1], uv[4]>>, <<uv[1], uv[2]>>, <<uv[3], uv[2]>>, <<uv[3], uv[4]>> >>

next_uvs(tile) == FlipV(FlipH(FlipD(UvCorners(tile.uv), tile), tile), tile)

QuadPositions(tile) ==
    << <<tile.vertex[1], tile.vertex[2], 0>>,
       <<tile.vertex[1], tile.vertex[4], 0>>,
       <<tile.vertex[3], tile.vertex[4], 0>>,
       <<tile.vertex[3], tile.vertex[2], 0>> >>

\* the two triangles as a fan from corner 0, against QuadIndices below
QuadIndicesFan(i) == <<i + 0, i + 1, i + 2, i + 0, i + 2, i + 3>>
QuadIndices(i) == <<i + 0, i + 2, i + 1, i + 0, i + 3, i + 2>>

RECURSIVE Flatten(_)
Flatten(ss) == IF ss = <<>> THEN <<>> ELSE Head(ss) \o Flatten(Tail(ss))

\* the tiles of a chunk that pass the `tile.tile_id < tileset_guid` test,
\* in iteration order
MeshTiles(chunk, tileset_guid) ==
    SelectSeq(Flatten(chunk.tiles), LAMBDA tile : ~(tile.tile_id < tileset_guid))

\* the buffers after the loop over the chunk's tiles (i = 4 * quads so far)
ChunkMesh(chunk, tileset_guid) ==
    LET kept == MeshTiles(chunk, tileset_guid)
        n == Len(kept)
    IN  [positions |-> [k \in 1..(4 * n) |->
                          QuadPositions(kept[((k - 1) \div 4) + 1])[((k - 1) % 4) + 1]],
         uvs |-> [k \in 1..(4 * n) |->
                          next_uvs(kept[((k - 1) \div 4) + 1])[((k - 1) % 4) + 1]],
         indices |-> [k \in 1..(6 * n) |->
                          QuadIndices(4 * ((k - 1) \div 6))[((k - 1) % 6) + 1]]]

\* the (layer_id, tileset_guid, mesh) records of one tileset layer
TilesetLayerMeshes(layer_id, tileset_layer) ==
    LET chunk_list == Flatten(tileset_layer.chunks)
        one(chunk) == LET mesh == ChunkMesh(chunk, tileset_layer.tileset_guid)
                      IN  IF Len(mesh.positions) > 0
                          THEN << <<layer_id, tileset_layer.tileset_guid, mesh>> >>
                          ELSE <<>>
    IN  Flatten([c \in 1..Len(chunk_list) |-> one(chunk_list[c])])

BuildMeshes(layers) ==
    Flatten([l \in 1..Len(layers) |->
               Flatten([t \in 1..Len(layers[l].tileset_layers) |->
                          TilesetLayerMeshes(l - 1, layers[l].tileset_layers[t])])])

\* Map::try_from_bytes as one function of the parsed tiled::Map: the Map
\* asset, or <<>> when the compilation panics (no asset is published).
TryFromBytes(map) ==
    IF BuildLayersPanics(map) THEN <<>>
    ELSE LET tile_gids_ == BuildTileGids(map.tilesets, EmptyHash)
             layers_ == BuildLayers(map)
         IN  <<[map |-> map,
                meshes |-> BuildMeshes(layers_),
                layers |-> layers_,
                groups |-> BuildGroups(map, tile_gids_),
                tile_size |-> <<map.tile_width, map.tile_height>>]>>

\* ------------------------------------------------------------------------
\* Bounds of the compiler's inputs
MaxChunkSpan == 2
MaxFirstGid == 3
MaxTileCount == 3
MaxCellGid == 6

\* ------------------------------------------------------------------------
\* Inputs: parsed maps (what tiled::parse_with_path returns)
Image(w, h) == [width |-> w, height |-> h]
Tileset(first_gid, tilecount, tw, th, spacing, images) ==
    [first_gid |-> first_gid, tilecount |-> tilecount,
     tile_width |-> tw, tile_height |-> th, spacing |-> spacing, images |-> images]
LayerTile(gid, flip_h, flip_v, flip_d) ==
    [gid |-> gid, flip_h |-> flip_h, flip_v |-> flip_v, flip_d |-> flip_d]
FiniteLayer(visible, cells) == [visible |-> visible, kind |-> "Finite", cells |-> cells]
InfiniteLayer(visible) == [visible |-> visible, kind |-> "Infinite", cells |-> <<>>]
RectObject(gid, x, y, w, h) ==
    [gid |-> gid, x |-> x, y |-> y, visible |-> TRUE,
     shape |-> [kind |-> "Rect", width |-> w, height |-> h]]
ShapeObject(kind, gid, x, y, w, h) ==
    [gid |-> gid, x |-> x, y |-> y, visible |-> TRUE,
     shape |-> IF kind \in {"Rect", "Ellipse"}
               THEN [kind |-> kind, width |-> w, height |-> h]
               ELSE [kind |-> kind]]
TiledGroup(visible, objects) == [visible |-> visible, objects |-> objects]
TiledMap(w, h, orientation, tilesets, layers, object_groups) ==
    [width |-> w, height |-> h, tile_width |-> 16, tile_height |-> 16,
     orientation |-> orientation, tilesets |-> tilesets, layers |-> layers,
     object_groups |-> object_groups]

Orientations == {"Orthogonal", "Isometric", "Staggered"}

\* a 2 x 2 sheet of 16 x 16 tiles, gids 1..4
TsA == Tileset(1, SomeOpt(4), 16, 16, 0, <<Image(32, 32)>>)
\* a 2 x 1 sheet of 8 x 8 tiles with spacing 1, gids 5..6
TsB == Tileset(5, SomeOpt(2), 8, 8, 1, <<Image(17, 8)>>)
\* a tileset that declares no tile count
TsC == Tileset(5, NoneOpt, 16, 16, 0, <<Image(16, 16)>>)
\* a tileset without image
TsD == Tileset(5, SomeOpt(2), 16, 16, 0, <<>>)

\* every tileset list of at most two tilesets over the bounded gid ranges
ResolverTilesets ==
    LET one == {Tileset(f, c, 16, 16, 0, <<Image(64, 64)>>) :
                   f \in 1..MaxFirstGid,
                   c \in {NoneOpt} \cup {SomeOpt(n) : n \in 1..MaxTileCount}}
    IN  {<<>>} \cup {<<a>> : a \in one} \cup {<<a, b>> : a \in one, b \in one}

\* one group with one object per gid
ProbeGroups ==
    <<TiledGroup(TRUE, [i \in 1..(MaxFirstGid + MaxTileCount + 1) |->
                          RectObject(i - 1, 10, 20, 4, 6)])>>

\* maps that exercise the resolver: no visible layer, one object per gid
ResolverInputs ==
    {TiledMap(1, 1, "Orthogonal", ts, <<FiniteLayer(FALSE, <<>>)>>, ProbeGroups) :
        ts \in ResolverTilesets}

\* map sizes around the chunk boundaries
MapSizes == {0, 1} \cup {target_chunk_x * k + d : k \in 1..MaxChunkSpan, d \in {0, 1}}

CornerCells(w, h) ==
    IF w = 0 \/ h = 0 THEN <<>>
    ELSE [c \in {<<0, 0>>, <<w - 1, h - 1>>} |->
            IF c = <<0, 0>> THEN LayerTile(1, FALSE, FALSE, FALSE)
            ELSE LayerTile(2, TRUE, FALSE, FALSE)]

SizeInputs ==
    {TiledMap(w, h, "Orthogonal", <<TsA>>, <<FiniteLayer(TRUE, CornerCells(w, h))>>, <<>>) :
        w \in MapSizes, h \in MapSizes}

\* 2 x 2 maps: every gid and flip combination in cell (1,0), a fixed tile in
\* cell (0,1), the other two cells blank
ContentCells(gid, flip_h, flip_v, flip_d) ==
    [c \in {<<1, 0>>, <<0, 1>>} |->
        IF c = <<1, 0>> THEN LayerTile(gid, flip_h, flip_v, flip_d)
        ELSE LayerTile(2, FALSE, FALSE, FALSE)]

ContentTilesets == {<<TsA>>, <<TsA, TsB>>, <<TsA, TsC>>, <<TsA, TsD>>, <<>>}

ContentLayers(cells) ==
    {<<FiniteLayer(TRUE, cells)>>,
     <<FiniteLayer(FALSE, cells), FiniteLayer(TRUE, cells)>>,
     <<InfiniteLayer(TRUE)>>,
     <<>>}

ContentInputs ==
    {TiledMap(2, 2, o, ts, ls, <<>>) :
        o \in Orientations, ts \in ContentTilesets,
        ls \in UNION {ContentLayers(ContentCells(g, fh, fv, fd)) :
                        g \in 0..MaxCellGid, fh \in BOOLEAN, fv \in BOOLEAN, fd \in BOOLEAN}}

\* 2 x 2 orthogonal maps with one layer, one tileset of 16 x 16 tiles
\* without spacing, and one unflipped tile at (1, 0) that points at the
\* tileset's first tile; the tileset's sheet holds four tiles or one
TsOne == Tileset(1, SomeOpt(1), 16, 16, 0, <<Image(16, 16)>>)
FirstTileAt10 == [c \in {<<1, 0>>} |-> LayerTile(1, FALSE, FALSE, FALSE)]
ScenarioInputs ==
    {TiledMap(2, 2, "Orthogonal", <<ts>>, <<FiniteLayer(TRUE, FirstTileAt10)>>, <<>>) :
        ts \in {TsA, TsOne}}

CompileInputs == ResolverInputs \cup SizeInputs \cup ContentInputs \cup ScenarioInputs

\* ------------------------------------------------------------------------
\* Scene reconciler: the world process_loaded_tile_maps runs in.

\* Bounds of the reconciler's world
MaxEvents == 2
MaxEntities == 4

\* The TiledMapBundle entities the query yields, in query order, with the
\* components the system reads only: Handle<Map>, Option<Entity> (parent),
\* TiledMapCenter, DebugConfig.enabled.
MapHandles == {1, 2}
AttachmentPoints == {1, 2, 3}
map_asset == <<1, 1, 2>>
parent_option == <<NoneOpt, SomeOpt(0), SomeOpt(0)>>
center == <<FALSE, TRUE, TRUE>>
debug_enabled == <<FALSE, TRUE, TRUE>>

\* The maps the asset loader may hand over
OneTile == [c \in {<<1, 0>>} |-> LayerTile(1, FALSE, FALSE, FALSE)]
Shape0 == RectObject(0, 10, 20, 4, 6)
Sprite2 == RectObject(2, 0, 16, 16, 16)
SmallMap(orientation, tilesets, layers_, object_groups) ==
    TiledMap(2, 2, orientation, tilesets, layers_, object_groups)

ReconcilerInputs ==
    <<\* one layer, one tileset, one mesh
     SmallMap("Orthogonal", <<TsA>>, <<FiniteLayer(TRUE, OneTile)>>, <<>>),
     \* two layers, a mesh each
     SmallMap("Orthogonal", <<TsA>>,
              <<FiniteLayer(TRUE, OneTile), FiniteLayer(TRUE, OneTile)>>, <<>>),
     \* one layer without any tile: no mesh at all
     SmallMap("Orthogonal", <<TsA>>, <<FiniteLayer(TRUE, <<>>)>>, <<>>),
     \* two visible object groups, a shape of gid 0 in each
     SmallMap("Orthogonal", <<TsA>>, <<FiniteLayer(TRUE, OneTile)>>,
              <<TiledGroup(TRUE, <<Shape0>>), TiledGroup(TRUE, <<Shape0>>)>>),
     \* two tilesets, tiles of the first only; a shape and a tile object in a
     \* visible group, a tile object in a hidden group
     SmallMap("Orthogonal", <<TsA, TsB>>, <<FiniteLayer(TRUE, OneTile)>>,
              <<TiledGroup(TRUE, <<Shape0, Sprite2>>), TiledGroup(FALSE, <<Sprite2>>)>>),
     \* an isometric map with a rectangle object
     SmallMap("Isometric", <<TsA>>, <<FiniteLayer(TRUE, OneTile)>>,
              <<TiledGroup(TRUE, <<Shape0>>)>>)>>

\* The Map asset of a parsed map, as the reconciler reads it: of a tileset
\* layer it reads tileset_guid only, of a mesh record its two tags; the mesh
\* buffer is named by its index in the compiler's mesh list.
AssetOf(map) ==
    LET r == TryFromBytes(map)[1]
    IN  [map |-> map,
         meshes |-> [i \in 1..Len(r.meshes) |-> <<r.meshes[i][1], r.meshes[i][2], i>>],
         layers |-> [l \in 1..Len(r.layers) |->
                       [tileset_layers |->
                          [t \in 1..Len(r.layers[l].tileset_layers) |->
                             [tileset_guid |->
                                r.layers[l].tileset_layers[t].tileset_guid]]]],
         groups |-> r.groups]

\* what the asset loader makes of each map: Some(asset), or None when the
\* compilation panics
LoaderOutput ==
    [i \in 1..Len(ReconcilerInputs) |->
        IF TryFromBytes(ReconcilerInputs[i]) = <<>> THEN <<>>
        ELSE <<AssetOf(ReconcilerInputs[i])>>]

VARIABLES
    c_pc, c_map, tile_gids, object_gids, groups, layers, meshes,
    loader,             \* the asset loader's compiled maps, ready to publish
    maps,               \* Assets<Map>: handle -> Option<Map>
    events,             \* the AssetEvent<Map> not yet read
    created_entities,   \* CreatedMapEntities of each attachment point
    materials_map,      \* keys of each attachment point's materials map
    texture_atlas_map,  \* each attachment point's atlas map: gid -> atlas
    debug_material,     \* DebugConfig.material.is_some()
    commands,           \* the Commands queued by the last run of the system
    ready,              \* the ObjectReadyEvent / MapReadyEvent it sent
    changed_maps,       \* its changed_maps set
    batch,              \* the events its EventReader read
    next_entity,        \* the next Entity the world hands out
    despawned,          \* the entities despawned so far
    passes,             \* per map: runs that had it in changed_maps since it
                        \* was last compiled (0, 1, 2 = two or more)
    crashed,            \* the system panicked
    f_pc, f_call, f_ret \* a call of one of the pure functions: its position,
                        \* its arguments and what it returned so far

cvars == <<c_pc, c_map, tile_gids, object_gids, groups, layers, meshes>>
rvars == <<loader, maps, events, created_entities, materials_map, texture_atlas_map,
           debug_material, commands, ready, changed_maps, next_entity, despawned,
           passes, crashed, batch>>
fvars == <<f_pc, f_call, f_ret>>
vars == <<cvars, rvars, fvars>>

NoCall ==
    /\ f_pc = "idle"
    /\ f_call = <<>>
    /\ f_ret = <<>>

EmptyCreated == [created_layer_entities |-> <<>>, created_object_entities |-> <<>>]

ReconcilerInit ==
    /\ maps = [m \in MapHandles |-> NoneOpt]
    /\ events = <<>>
    /\ created_entities = [ap \in AttachmentPoints |-> EmptyCreated]
    /\ materials_map = [ap \in AttachmentPoints |-> {}]
    /\ texture_atlas_map = [ap \in AttachmentPoints |-> <<>>]
    /\ debug_material = [ap \in AttachmentPoints |-> FALSE]
    /\ commands = <<>>
    /\ ready = <<>>
    /\ changed_maps = {}
    /\ batch = <<>>
    /\ next_entity = 1
    /\ despawned = {}
    /\ passes = [m \in MapHandles |-> 0]
    /\ crashed = FALSE

\* --- the host -----------------------------------------------------------
\* The asset server publishes a compiled map under handle m: Created for a
\* new asset, Modified for a reloaded one.  A compilation that panics
\* publishes nothing.
LoadMap(m, i) ==
    /\ ~crashed
    /\ Len(events) < MaxEvents
    /\ loader[i] # <<>>
    /\ maps' = [maps EXCEPT ![m] = loader[i]]
    /\ events' = Append(events,
                         [kind |-> IF maps[m] = <<>> THEN "Created" ELSE "Modified",
                          handle |-> m])
    /\ passes' = [passes EXCEPT ![m] = 0]
    /\ UNCHANGED <<loader, created_entities, materials_map, texture_atlas_map,
                   debug_material, commands, ready, changed_maps, next_entity,
                   despawned, crashed, batch>>
    /\ UNCHANGED cvars
    /\ UNCHANGED fvars

\* A Modified notification without recompilation: every Assets::get_mut
\* sends one, the get_mut of line 746 included.
TouchMap(m) ==
    /\ ~crashed
    /\ Len(events) < MaxEvents
    /\ maps[m] # <<>>
    /\ events' = Append(events, [kind |-> "Modified", handle |-> m])
    /\ UNCHANGED <<loader, maps, passes, created_entities, materials_map,
                   texture_atlas_map, debug_material, commands, ready,
                   changed_maps, next_entity, despawned, crashed, batch>>
    /\ UNCHANGED cvars
    /\ UNCHANGED fvars

\* The map asset is unloaded
UnloadMap(m) ==
    /\ ~crashed
    /\ Len(events) < MaxEvents
    /\ maps[m] # <<>>
    /\ maps' = [maps EXCEPT ![m] = NoneOpt]
    /\ events' = Append(events, [kind |-> "Removed", handle |-> m])
    /\ passes' = [passes EXCEPT ![m] = 0]
    /\ UNCHANGED <<loader, created_entities, materials_map, texture_atlas_map,
                   debug_material, commands, ready, changed_maps, next_entity,
                   despawned, crashed, batch>>
    /\ UNCHANGED cvars
    /\ UNCHANGED fvars

\* --- process_loaded_tile_maps -------------------------------------------
\* a fold in which a Removed is never overridden by a later notification,
\* against the fold below
ChangedMapsRemovedWins(evs, changed) ==
    (changed \cup {evs[i].handle : i \in 1..Len(evs)})
        \ {evs[i].handle : i \in {j \in 1..Len(evs) : evs[j].kind = "Removed"}}
\* lines 726-741: the events of the batch folded into changed_maps
RECURSIVE ChangedMaps(_, _)
ChangedMaps(evs, changed) ==
    IF evs = <<>> THEN changed
    ELSE ChangedMaps(Tail(evs),
                     IF Head(evs).kind = "Removed"
                     THEN changed \ {Head(evs).handle}
                     ELSE changed \cup {Head(evs).handle})

\* lines 768-773: the tileset keys the objects of the map refer to
ObjectTilesetGids(asset) ==
    UNION {{asset.groups[g].objects[i].tileset_gid :
              i \in 1..Len(asset.groups[g].objects)} : g \in 1..Len(asset.groups)}

\* lines 776-803: the atlas map after the grid atlas of a tileset is added
WithAtlas(atlas_map, tileset) ==
    LET image == tileset.images[1]
        columns == image.width \div tileset.tile_width
        rows == image.height \div tileset.tile_height
        keys == {tileset.first_gid + i : i \in 0..(columns * rows - 1)}
    IN  [k \in DOMAIN atlas_map \cup keys |->
            IF k \in DOMAIN atlas_map THEN atlas_map[k] ELSE tileset.first_gid]

\* lines 756-806: the materials and atlas maps of an attachment point after
\* the loop over the tilesets of its changed map
RECURSIVE LoadTilesets(_, _, _)
LoadTilesets(mt, asset, t) ==
    IF t > Len(asset.map.tilesets) THEN mt
    ELSE LET tileset == asset.map.tilesets[t]
         IN  IF tileset.first_gid \in mt.materials
             THEN LoadTilesets(mt, asset, t + 1)
             ELSE LoadTilesets(
                     [materials |-> mt.materials \cup {tileset.first_gid},
                      atlases |-> IF SomeOpt(tileset.first_gid) \in ObjectTilesetGids(asset)
                                  THEN WithAtlas(mt.atlases, tileset)
                                  ELSE mt.atlases],
                     asset, t + 1)

\* a mesh list that is read and left in place, against the drain below
MeshesAfterDrainKept(mesh_list) == mesh_list
\* line 809: map.meshes.drain(0..map.meshes.len()) leaves the list empty
MeshesAfterDrain(mesh_list) == <<>>

\* a new_meshes with a key for every changed map, drained meshes or not,
\* against the map below
NewMeshesEveryChanged(changed) ==
    [m \in changed |-> maps[m][1].meshes]

\* lines 809-819: new_meshes has a key for a changed map only when a mesh
\* was drained from it
NewMeshes(changed) ==
    [m \in {h \in changed : maps[h][1].meshes # <<>>} |-> maps[m][1].meshes]

Despawns(entities) ==
    [i \in 1..Len(entities) |-> [op |-> "despawn", entity |-> entities[i]]]

\* a removal that hands the entities out and leaves the entry in place,
\* against HashMap::remove below
RegistryRemoveKept(h, k) == h
\* HashMap::remove
RegistryRemove(h, k) ==
    IF DOMAIN h \ {k} = {} THEN <<>> ELSE [x \in DOMAIN h \ {k} |-> h[x]]
RegistryGet(h, k) == IF k \in DOMAIN h THEN h[k] ELSE <<>>
\* entry(k).or_insert_with(|| Vec::new()).push(e)
EntryPush(h, k, e) ==
    [x \in DOMAIN h \cup {k} |->
        IF x \in DOMAIN h THEN (IF x = k THEN Append(h[x], e) ELSE h[x]) ELSE <<e>>]

RECURSIVE PushAll(_, _, _)
PushAll(h, k, entities) ==
    IF entities = <<>> THEN h
    ELSE PushAll(EntryPush(h, k, Head(entities)), k, Tail(entities))

ParentCommands(ap, children, with_root) ==
    IF IsSome(parent_option[ap])
    THEN <<[op |-> "push_children", entity |-> Unwrap(parent_option[ap]),
            children |-> children]>>
         \o (IF with_root
             THEN <<[op |-> "insert_MapRoot", entity |-> Unwrap(parent_option[ap])]>>
             ELSE <<>>)
    ELSE <<>>

\* lines 846-904: the body of the loop over the tileset layers.  st is the
\* state of the run: the registry of the attachment point, the command queue,
\* the events sent, the next free entity and the atlas maps.
ReconcileTilesetLayer(st, ap, layer_id, tileset_guid, mesh_list) ==
    LET key == <<layer_id, tileset_guid>>
        chunk_mesh_list ==
            SelectSeq(mesh_list,
                      LAMBDA mesh : mesh[1] = layer_id /\ mesh[2] = tileset_guid)
        old == RegistryGet(st.created_layer_entities, key)
        chunk_entities == [i \in 1..Len(chunk_mesh_list) |-> st.next + i - 1]
        spawns == [i \in 1..Len(chunk_mesh_list) |->
                     [op |-> "spawn_chunk", entity |-> chunk_entities[i], ap |-> ap,
                      layer_id |-> layer_id, material |-> tileset_guid,
                      mesh |-> chunk_mesh_list[i][3]]]
    IN  [st EXCEPT
            !.created_layer_entities =
                PushAll(RegistryRemove(st.created_layer_entities, key), key,
                        chunk_entities),
            !.commands = st.commands \o Despawns(old) \o spawns
                            \o ParentCommands(ap, chunk_entities, TRUE),
            !.next = st.next + Len(chunk_mesh_list)]

\* the (layer_id, tileset_guid) of the tileset layers, in loop order
LayerKeys(asset) ==
    Flatten([l \in 1..Len(asset.layers) |->
               [t \in 1..Len(asset.layers[l].tileset_layers) |->
                  <<l - 1, asset.layers[l].tileset_layers[t].tileset_guid>>]])

\* lines 845-905
RECURSIVE ReconcileLayers(_, _, _, _)
ReconcileLayers(st, ap, keys, mesh_list) ==
    IF keys = <<>> THEN st
    ELSE ReconcileLayers(
            ReconcileTilesetLayer(st, ap, Head(keys)[1], Head(keys)[2], mesh_list),
            ap, Tail(keys), mesh_list)

\* lines 912-923: the registry entries of the group's objects are removed
\* and their entities despawned
RECURSIVE RetireObjects(_, _)
RetireObjects(st, objects) ==
    IF objects = <<>> THEN st
    ELSE RetireObjects(
            [st EXCEPT
                !.created_object_entities =
                    RegistryRemove(st.created_object_entities, Head(objects).gid),
                !.commands = st.commands
                    \o Despawns(RegistryGet(st.created_object_entities,
                                            Head(objects).gid))],
            Tail(objects))

\* lines 536-603: Object::spawn gives a sprite-sheet sprite when the atlas
\* map has the object's tileset, a debug box otherwise
SpawnKind(object, atlas_map) ==
    IF IsSome(object.tileset_gid) /\ Unwrap(object.tileset_gid) \in DOMAIN atlas_map
    THEN "sprite" ELSE "debug_box"

\* lines 931-961
RECURSIVE SpawnObjects(_, _, _, _, _)
SpawnObjects(st, ap, g, objects, i) ==
    IF i > Len(objects) THEN st
    ELSE SpawnObjects(
            [st EXCEPT
                !.commands = Append(st.commands,
                    [op |-> "spawn_object", entity |-> st.next, ap |-> ap,
                     group |-> g, index |-> i - 1, gid |-> objects[i].gid,
                     kind |-> SpawnKind(objects[i], st.atlases[ap])]),
                !.ready = Append(st.ready,
                    [event |-> "ObjectReadyEvent", entity |-> st.next,
                     map_handle |-> map_asset[ap],
                     map_entity_option |-> parent_option[ap]]),
                !.created_object_entities =
                    EntryPush(st.created_object_entities, objects[i].gid, st.next),
                !.next = st.next + 1],
            ap, g, objects, i + 1)

\* lines 911-969
RECURSIVE ReconcileGroups(_, _, _, _)
ReconcileGroups(st, ap, asset, g) ==
    IF g > Len(asset.groups) THEN st
    ELSE LET object_group == asset.groups[g]
             retired == RetireObjects(st, object_group.objects)
         IN  IF ~object_group.visible
             THEN ReconcileGroups(retired, ap, asset, g + 1)
             ELSE LET spawned == SpawnObjects(retired, ap, g - 1, object_group.objects, 1)
                      object_entities ==
                          [i \in 1..Len(object_group.objects) |-> retired.next + i - 1]
                  IN  ReconcileGroups(
                         [spawned EXCEPT !.commands =
                             spawned.commands \o ParentCommands(ap, object_entities, FALSE)],
                         ap, asset, g + 1)

\* lines 834-975: one attachment point whose map has new meshes
ReconcileAttachmentPoint(st, ap, asset, mesh_list) ==
    LET after_layers ==
            ReconcileLayers(
                [st EXCEPT
                    !.created_layer_entities =
                        created_entities[ap].created_layer_entities,
                    !.created_object_entities =
                        created_entities[ap].created_object_entities],
                ap, LayerKeys(asset), mesh_list)
        after_groups == ReconcileGroups(after_layers, ap, asset, 1)
    IN  [after_groups EXCEPT
            !.created = [after_groups.created EXCEPT ![ap] =
                            [created_layer_entities |->
                                after_groups.created_layer_entities,
                             created_object_entities |->
                                after_groups.created_object_entities]],
            !.ready = Append(after_groups.ready,
                             [event |-> "MapReadyEvent", map_handle |-> map_asset[ap],
                              map_entity_option |-> parent_option[ap]])]

\* lines 822-976: the loop over the query
RECURSIVE ReconcileAll(_, _, _)
ReconcileAll(st, ap, new_meshes) ==
    IF ap \notin AttachmentPoints THEN st
    ELSE IF map_asset[ap] \in DOMAIN new_meshes
         THEN ReconcileAll(
                 ReconcileAttachmentPoint(st, ap, maps[map_asset[ap]][1],
                                          new_meshes[map_asset[ap]]),
                 ap + 1, new_meshes)
         ELSE ReconcileAll(st, ap + 1, new_meshes)

\* The panics the run can reach: maps.get_mut(..).unwrap() on a map that is
\* not loaded (746), a tileset without image (760), Map::center on an
\* unsupported orientation (107), a rectangle object on a map that is not
\* orthogonal (522)
TickPanics(changed) ==
    \/ \E m \in changed : maps[m] = <<>>
    \/ \E ap \in AttachmentPoints :
          /\ map_asset[ap] \in changed
          /\ maps[map_asset[ap]] # <<>>
          /\ LET asset == maps[map_asset[ap]][1]
             IN  \/ \E t \in 1..Len(asset.map.tilesets) :
                       /\ asset.map.tilesets[t].first_gid \notin materials_map[ap]
                       /\ asset.map.tilesets[t].images = <<>>
                 \/ /\ asset.meshes # <<>>
                    /\ \/ /\ center[ap]
                          /\ asset.map.orientation \notin {"Orthogonal", "Isometric"}
                       \/ \E g \in 1..Len(asset.groups) :
                             /\ asset.groups[g].visible
                             /\ \E i \in 1..Len(asset.groups[g].objects) :
                                   /\ asset.groups[g].objects[i].shape.kind = "Rect"
                                   /\ asset.map.orientation # "Orthogonal"

Touched(changed) ==
    {ap \in AttachmentPoints : map_asset[ap] \in DOMAIN NewMeshes(changed)}

\* One run of the system on the batch of events (a run without events changes
\* nothing)
Tick ==
    /\ ~crashed
    /\ events # <<>>
    /\ UNCHANGED cvars
    /\ UNCHANGED fvars
    /\ LET changed == ChangedMaps(events, {})
       IN  IF TickPanics(changed) = TRUE
           THEN /\ crashed' = TRUE
                /\ UNCHANGED <<loader, maps, events, created_entities, materials_map,
                               texture_atlas_map, debug_material, commands, ready,
                               changed_maps, next_entity, despawned, passes,
                               batch>>
           ELSE LET loaded == [ap \in AttachmentPoints |->
                                 IF map_asset[ap] \in changed
                                 THEN LoadTilesets([materials |-> materials_map[ap],
                                                    atlases |-> texture_atlas_map[ap]],
                                                   maps[map_asset[ap]][1], 1)
                                 ELSE [materials |-> materials_map[ap],
                                       atlases |-> texture_atlas_map[ap]]]
                IN  /\ materials_map' = [ap \in AttachmentPoints |-> loaded[ap].materials]
                    /\ texture_atlas_map' = [ap \in AttachmentPoints |-> loaded[ap].atlases]
                    /\ LET st == ReconcileAll(
                                    [created |-> created_entities,
                                     atlases |-> [ap \in AttachmentPoints |->
                                                    loaded[ap].atlases],
                                     created_layer_entities |-> <<>>,
                                     created_object_entities |-> <<>>,
                                     commands |-> <<>>, ready |-> <<>>,
                                     next |-> next_entity],
                                    1, NewMeshes(changed))
                       IN  /\ st.next - 1 <= MaxEntities
                           /\ created_entities' = st.created
                           /\ commands' = st.commands
                           /\ ready' = st.ready
                           /\ next_entity' = st.next
                           /\ despawned' = despawned \cup
                                 {st.commands[i].entity :
                                    i \in {j \in 1..Len(st.commands) :
                                             st.commands[j].op = "despawn"}}
                    /\ maps' = [m \in MapHandles |->
                                  IF m \in changed
                                  THEN <<[maps[m][1] EXCEPT
                                            !.meshes = MeshesAfterDrain(@)]>>
                                  ELSE maps[m]]
                    /\ debug_material' =
                          [ap \in AttachmentPoints |->
                              debug_material[ap]
                              \/ (ap \in Touched(changed) /\ debug_enabled[ap])]
                    /\ changed_maps' = changed
                    /\ batch' = events
                    /\ events' = <<>>
                    /\ passes' = [m \in MapHandles |->
                                    IF m \in changed
                                    THEN (IF passes[m] = 0 THEN 1 ELSE 2)
                                    ELSE passes[m]]
                    /\ UNCHANGED <<crashed, loader>>

Next ==
    \/ \E m \in MapHandles, i \in 1..Len(ReconcilerInputs) : LoadMap(m, i)
    \/ \E m \in MapHandles : TouchMap(m)
    \/ \E m \in MapHandles : UnloadMap(m)
    \/ Tick

Init ==
    /\ ReconcilerInit
    /\ loader = LoaderOutput
    /\ c_pc = "idle"
    /\ c_map = <<>>
    /\ tile_gids = EmptyHash
    /\ object_gids = {}
    /\ groups = <<>>
    /\ layers = <<>>
    /\ meshes = <<>>
    /\ NoCall

Spec == Init /\ [][Next]_vars

\* ------------------------------------------------------------------------
\* Properties of the reconciler

Range(f) == {f[x] : x \in DOMAIN f}

\* a step that is a completed run of the system
TickRan == events # <<>> /\ events' = <<>> /\ ~crashed'

\* the (layer_key, tileset_key) pairs of an artifact's tileset layers
ArtifactKeys(asset) ==
    UNION {{<<l - 1, asset.layers[l].tileset_layers[t].tileset_guid>> :
              t \in 1..Len(asset.layers[l].tileset_layers)} :
           l \in 1..Len(asset.layers)}

LayerRegistry(ap) == created_entities[ap].created_layer_entities
ObjectRegistry(ap) == created_entities[ap].created_object_entities
RegisteredAt(ap) ==
    UNION {Range(LayerRegistry(ap)[k]) : k \in DOMAIN LayerRegistry(ap)}
    \cup UNION {Range(ObjectRegistry(ap)[k]) : k \in DOMAIN ObjectRegistry(ap)}

\* positions in a command queue of the chunk spawns of an attachment point
\* under a key
ChunkSpawns(cmds, ap, key) ==
    {j \in 1..Len(cmds) :
        /\ cmds[j].op = "spawn_chunk"
        /\ cmds[j].ap = ap
        /\ <<cmds[j].layer_id, cmds[j].material>> = key}
RECURSIVE Ascending(_)
Ascending(S) ==
    IF S = {} THEN <<>>
    ELSE LET least == CHOOSE x \in S : \A y \in S : x <= y
         IN  <<least>> \o Ascending(S \ {least})

\* C1: after a pass over an attachment point of a changed map, every key
\* that was registered before the pass and is no key of the new artifact has
\* had its handles despawned and its registry entry removed.
C1_StaleKeysRetired ==
    [][TickRan =>
          \A ap \in Touched(ChangedMaps(events, {})) :
              \A key \in DOMAIN LayerRegistry(ap) :
                  key \notin ArtifactKeys(maps[map_asset[ap]][1]) =>
                      /\ key \notin DOMAIN created_entities'[ap].created_layer_entities
                      /\ Range(LayerRegistry(ap)[key]) \subseteq despawned']_vars

\* C2: for every key of a newly compiled artifact, the pass despawns the
\* handles registered under the key before it spawns one chunk entity per
\* mesh tagged with the key, and afterwards the handles registered under the
\* key are exactly the entities spawned in this pass (also when the artifact
\* has no mesh for the key, or no mesh at all).
C2_ReplaceWholesale ==
    [][TickRan =>
          \A ap \in AttachmentPoints :
              (map_asset[ap] \in ChangedMaps(events, {}) /\ passes[map_asset[ap]] = 0) =>
                  LET asset == maps[map_asset[ap]][1]
                  IN  \A key \in ArtifactKeys(asset) :
                          LET spawns == ChunkSpawns(commands', ap, key)
                              tagged == {i \in 1..Len(asset.meshes) :
                                           <<asset.meshes[i][1], asset.meshes[i][2]>> = key}
                          IN  /\ \A e \in Range(RegistryGet(LayerRegistry(ap), key)) :
                                    \E i \in 1..Len(commands') :
                                        /\ commands'[i] = [op |-> "despawn", entity |-> e]
                                        /\ \A j \in spawns : i < j
                              /\ RegistryGet(created_entities'[ap].created_layer_entities, key)
                                    = [n \in 1..Cardinality(spawns) |->
                                          commands'[Ascending(spawns)[n]].entity]
                              /\ Cardinality(spawns) = Cardinality(tagged)
                              /\ {commands'[j].mesh : j \in spawns}
                                    = {asset.meshes[i][3] : i \in tagged}]_vars

\* C3: after a pass over an attachment point, every object of every visible
\* group of the artifact has exactly one entity that was spawned for it in
\* this pass, is not despawned and is registered under the object's gid.
C3_ObjectsRealizedOnce ==
    [][TickRan =>
          \A ap \in Touched(ChangedMaps(events, {})) :
              LET asset == maps[map_asset[ap]][1]
              IN  \A g \in 1..Len(asset.groups) :
                      asset.groups[g].visible =>
                          \A i \in 1..Len(asset.groups[g].objects) :
                              Cardinality(
                                  {commands'[j].entity :
                                      j \in {k \in 1..Len(commands') :
                                               /\ commands'[k].op = "spawn_object"
                                               /\ commands'[k].ap = ap
                                               /\ commands'[k].group = g - 1
                                               /\ commands'[k].index = i - 1
                                               /\ commands'[k].entity \notin despawned'
                                               /\ commands'[k].entity \in
                                                    Range(RegistryGet(
                                                        created_entities'[ap]
                                                            .created_object_entities,
                                                        asset.groups[g].objects[i].gid))}})
                                  = 1]_vars

\* the maps whose last notification in the batch is Removed
RemovedMaps(evs) ==
    {m \in MapHandles :
        /\ \E i \in 1..Len(evs) : evs[i] = [kind |-> "Removed", handle |-> m]
        /\ m \notin ChangedMaps(evs, {})}

\* C4: the run that reads a Removed notification of a map despawns every
\* handle registered at the attachment points bound to the map and leaves
\* their registries empty.
C4_RemovedRetiresAll ==
    [][TickRan =>
          \A ap \in AttachmentPoints :
              map_asset[ap] \in RemovedMaps(events) =>
                  /\ created_entities'[ap] = EmptyCreated
                  /\ RegisteredAt(ap) \subseteq despawned']_vars

\* the commands of a queue that concern an attachment point: its spawns, and
\* the despawns of the handles it had registered
CommandsAbout(cmds, ap, registered) ==
    {j \in 1..Len(cmds) :
        \/ cmds[j].op \in {"spawn_chunk", "spawn_object"} /\ cmds[j].ap = ap
        \/ cmds[j].op = "despawn" /\ cmds[j].entity \in registered}

\* C5: a run on a notification for a map that was not recompiled since an
\* earlier run had it in its changed set leaves the registry of every
\* attachment point of the map as it was, and neither despawns one of its
\* handles nor spawns anything for it.
C5_SecondPassIsNoOp ==
    [][TickRan =>
          \A ap \in AttachmentPoints :
              (map_asset[ap] \in ChangedMaps(events, {}) /\ passes[map_asset[ap]] >= 1) =>
                  /\ created_entities'[ap] = created_entities[ap]
                  /\ CommandsAbout(commands', ap, RegisteredAt(ap)) = {}]_vars

\* the last run was at least the second on map 2 since it was compiled; it
\* issued no command and the registry of attachment point 3 still holds the
\* chunk of the first run
C5_Witness ==
    /\ passes[2] = 2
    /\ changed_maps = {2}
    /\ events = <<>>
    /\ commands = <<>>
    /\ LayerRegistry(3) # <<>>
    /\ maps[2] # <<>> /\ maps[2][1].meshes = <<>>

\* ------------------------------------------------------------------------
\* The compiler as a process: the locals of try_from_bytes after each of its
\* phases.
CompileInit ==
    /\ c_pc = "parsed"
    /\ c_map \in CompileInputs
    /\ tile_gids = EmptyHash
    /\ object_gids = {}
    /\ groups = <<>>
    /\ layers = <<>>
    /\ meshes = <<>>
    /\ ReconcilerInit
    /\ loader = <<>>
    /\ NoCall

\* lines 118-124
ResolveTilesets ==
    /\ c_pc = "parsed"
    /\ tile_gids' = BuildTileGids(c_map.tilesets, EmptyHash)
    /\ c_pc' = "resolved"
    /\ UNCHANGED <<c_map, object_gids, groups, layers, meshes>>
    /\ UNCHANGED rvars
    /\ UNCHANGED fvars

\* the tileset keys referenced by at least one object
ObjectGids(gs, h) ==
    UNION {{h[gs[g].objects[i].gid] :
              i \in {j \in 1..Len(gs[g].objects) : gs[g].objects[j].gid \in DOMAIN h}} :
           g \in 1..Len(gs)}

\* lines 126-137
ConvertObjectGroups ==
    /\ c_pc = "resolved"
    /\ groups' = BuildGroups(c_map, tile_gids)
    /\ object_gids' = ObjectGids(groups', tile_gids)
    /\ c_pc' = "grouped"
    /\ UNCHANGED <<c_map, tile_gids, layers, meshes>>
    /\ UNCHANGED rvars
    /\ UNCHANGED fvars

\* lines 139-312
BuildChunks ==
    /\ c_pc = "grouped"
    /\ \/ /\ BuildLayersPanics(c_map)
          /\ c_pc' = "panic"
          /\ UNCHANGED layers
       \/ /\ ~BuildLayersPanics(c_map)
          /\ layers' = BuildLayers(c_map)
          /\ c_pc' = "chunked"
    /\ UNCHANGED <<c_map, tile_gids, object_gids, groups, meshes>>
    /\ UNCHANGED rvars
    /\ UNCHANGED fvars

\* lines 314-395
AssembleMeshes ==
    /\ c_pc = "chunked"
    /\ meshes' = BuildMeshes(layers)
    /\ c_pc' = "done"
    /\ UNCHANGED <<c_map, tile_gids, object_gids, groups, layers>>
    /\ UNCHANGED rvars
    /\ UNCHANGED fvars

CompileNext == ResolveTilesets \/ ConvertObjectGroups \/ BuildChunks \/ AssembleMeshes

SpecCompile == CompileInit /\ [][CompileNext]_vars

\* ------------------------------------------------------------------------
\* Properties of the compiler

Compiled == c_pc \in {"chunked", "done"}

\* the (layer, tileset layer, chunk column, chunk row) indices of the chunks
ChunkIds ==
    UNION {UNION {UNION {{<<l, t, cx, cy>> :
                            cy \in 1..Len(layers[l].tileset_layers[t].chunks[cx])} :
                         cx \in 1..Len(layers[l].tileset_layers[t].chunks)} :
                  t \in 1..Len(layers[l].tileset_layers)} :
           l \in 1..Len(layers)}
ChunkAt(id) == layers[id[1]].tileset_layers[id[2]].chunks[id[3]][id[4]]

IsEmptyTile(tile) ==
    /\ tile.tile_id = 0
    /\ tile.vertex = <<0, 0, 0, 0>>
    /\ tile.uv = <<0, 0, 0, 0>>
    /\ ~tile.flip_d /\ ~tile.flip_h /\ ~tile.flip_v

\* C6: every chunk of every compiled tileset layer is a full 32 x 32 array
\* of tiles: 32 columns of 32 tiles each, the tile at [tx][ty] has
\* pos = (tx, ty), and a cell outside the map bounds is an empty tile.
C6_ChunksAreFullGrids ==
    Compiled =>
        \A id \in ChunkIds :
            LET chunk == ChunkAt(id)
            IN  /\ Len(chunk.tiles) = 32
                /\ \A tx \in 1..32 :
                      /\ Len(chunk.tiles[tx]) = 32
                      /\ \A ty \in 1..32 :
                            /\ chunk.tiles[tx][ty].pos = <<tx - 1, ty - 1>>
                            /\ (\/ (id[3] - 1) * 32 + (tx - 1) >= c_map.width
                                \/ (id[4] - 1) * 32 + (ty - 1) >= c_map.height)
                               => IsEmptyTile(chunk.tiles[tx][ty])

\* the least n with n * e >= w
CeilQuotient(w, e) == CHOOSE n \in 0..w : n * e >= w /\ (n = 0 \/ (n - 1) * e < w)

\* C7: the chunk grid of every tileset layer has max(1, ceil(W/32)) columns
\* of max(1, ceil(H/32)) chunks, and the chunk at [cx][cy] has position
\* (cx, cy).
C7_ChunkGridDimensions ==
    Compiled =>
        \A l \in 1..Len(layers) : \A t \in 1..Len(layers[l].tileset_layers) :
            LET chunks == layers[l].tileset_layers[t].chunks
                nx == IF CeilQuotient(c_map.width, 32) >= 1
                      THEN CeilQuotient(c_map.width, 32) ELSE 1
                ny == IF CeilQuotient(c_map.height, 32) >= 1
                      THEN CeilQuotient(c_map.height, 32) ELSE 1
            IN  /\ Len(chunks) = nx
                /\ \A cx \in 1..nx :
                      /\ Len(chunks[cx]) = ny
                      /\ \A cy \in 1..ny : chunks[cx][cy].position = <<cx - 1, cy - 1>>

\* a 0 x 33 map compiled to a 1 x 2 chunk grid
C7_Witness ==
    /\ c_pc = "done"
    /\ c_map.width = 0 /\ c_map.height = 33
    /\ Len(layers) = 1 /\ Len(layers[1].tileset_layers) = 1
    /\ Len(layers[1].tileset_layers[1].chunks) = 1
    /\ Len(layers[1].tileset_layers[1].chunks[1]) = 2

\* the gid range a tileset declares (one gid when it declares no tile count)
DeclaredCount(tileset) == IF tileset.tilecount = <<>> THEN 1 ELSE tileset.tilecount[1]
Claims(tileset, gid) ==
    tileset.first_gid <= gid /\ gid < tileset.first_gid + DeclaredCount(tileset)
Claimants(gid) == {t \in 1..Len(c_map.tilesets) : Claims(c_map.tilesets[t], gid)}
ProbeGids == 0..(MaxFirstGid + MaxTileCount + 1)
Resolved == c_pc \in {"resolved", "grouped", "chunked", "done", "panic"}
resolve(gid) == IF gid \in DOMAIN tile_gids THEN <<tile_gids[gid]>> ELSE <<>>

\* C8: with non-overlapping gid ranges, resolve(gid) is Some(first_gid) of
\* the tileset whose range [first_gid, first_gid + tile_count) holds gid, and
\* None for every gid in no range, gid 0 included.
C8_ResolverMapsRanges ==
    (Resolved /\ \A gid \in ProbeGids : Cardinality(Claimants(gid)) <= 1) =>
        \A gid \in ProbeGids :
            /\ \A t \in Claimants(gid) : resolve(gid) = <<c_map.tilesets[t].first_gid>>
            /\ Claimants(gid) = {} => resolve(gid) = <<>>

\* one tileset first_gid = 1, tile_count = 3: gids 1 and 3 resolve to 1, gids
\* 0 and 4 to nothing
C8_Witness ==
    /\ Resolved
    /\ Len(c_map.tilesets) = 1
    /\ c_map.tilesets[1].first_gid = 1 /\ c_map.tilesets[1].tilecount = <<3>>
    /\ resolve(1) = <<1>> /\ resolve(3) = <<1>>
    /\ resolve(4) = <<>> /\ resolve(0) = <<>>

Min(S) == CHOOSE x \in S : \A y \in S : x <= y
MaxOf(S) == CHOOSE x \in S : \A y \in S : x >= y

QuadIds ==
    {q \in (1..Len(meshes)) \X (0..(32 * 32 - 1)) :
        4 * q[2] + 4 <= Len(meshes[q[1]][3].positions)}
QuadUvs(q) == [k \in 1..4 |-> meshes[q[1]][3].uvs[4 * q[2] + k]]
\* the tiles a quad was emitted for: same layer and tileset, same vertex rect
QuadTiles(q) ==
    {tile \in UNION {UNION {{ChunkAt(id).tiles[tx][ty] :
                                ty \in 1..Len(ChunkAt(id).tiles[tx])} : tx \in 1..32} :
                        id \in {i \in ChunkIds :
                                  /\ i[1] = meshes[q[1]][1] + 1
                                  /\ layers[i[1]].tileset_layers[i[2]].tileset_guid
                                        = meshes[q[1]][2]}} :
        /\ tile.tile_id >= meshes[q[1]][2]
        /\ meshes[q[1]][3].positions[4 * q[2] + 1] = <<tile.vertex[1], tile.vertex[2], 0>>
        /\ meshes[q[1]][3].positions[4 * q[2] + 3] = <<tile.vertex[3], tile.vertex[4], 0>>}

\* the corners of a tile's UV rect in texture space
CornerA(tile) == <<tile.uv[1], tile.uv[4]>>
CornerB(tile) == <<tile.uv[1], tile.uv[2]>>
CornerC(tile) == <<tile.uv[3], tile.uv[2]>>
CornerD(tile) == <<tile.uv[3], tile.uv[4]>>
OnlyFlipV(tile) == tile.flip_v /\ ~tile.flip_h /\ ~tile.flip_d

\* C10 as stated: the quad of a tile with only the vertical flip set has the
\* UV corner order [C, D, A, B].
C10_VerticalFlipCDAB ==
    c_pc = "done" =>
        \A q \in QuadIds : \A tile \in QuadTiles(q) :
            OnlyFlipV(tile) =>
                QuadUvs(q) = <<CornerC(tile), CornerD(tile), CornerA(tile), CornerB(tile)>>

\* C10 as amended: the quad of a tile with only the vertical flip set has
\* the UV corner order [B, A, D, C].
C10_VerticalFlipBADC ==
    c_pc = "done" =>
        \A q \in QuadIds : \A tile \in QuadTiles(q) :
            OnlyFlipV(tile) =>
                QuadUvs(q) = <<CornerB(tile), CornerA(tile), CornerD(tile), CornerC(tile)>>

\* a mesh holds the quad of a vertically flipped tile whose four UV corners
\* differ
C10_Witness ==
    /\ c_pc = "done"
    /\ \E q \in QuadIds : \E tile \in QuadTiles(q) :
          /\ OnlyFlipV(tile)
          /\ Cardinality({CornerA(tile), CornerB(tile), CornerC(tile), CornerD(tile)}) = 4
          /\ QuadUvs(q) = <<CornerB(tile), CornerA(tile), CornerD(tile), CornerC(tile)>>

\* the corner order of each flag combination <<flip_d, flip_h, flip_v>>, as
\* positions in the unflipped order [A, B, C, D] = [1, 2, 3, 4]
FlipTable(flip_d, flip_h, flip_v) ==
    CASE ~flip_d /\ ~flip_h /\ ~flip_v -> <<1, 2, 3, 4>>
      [] flip_d /\ ~flip_h /\ ~flip_v  -> <<3, 2, 1, 4>>
      [] ~flip_d /\ flip_h /\ ~flip_v  -> <<4, 3, 2, 1>>
      [] ~flip_d /\ ~flip_h /\ flip_v  -> <<2, 1, 4, 3>>
      [] flip_d /\ flip_h /\ ~flip_v   -> <<4, 1, 2, 3>>
      [] flip_d /\ ~flip_h /\ flip_v   -> <<2, 3, 4, 1>>
      [] ~flip_d /\ flip_h /\ flip_v   -> <<3, 4, 1, 2>>
      [] flip_d /\ flip_h /\ flip_v    -> <<1, 4, 3, 2>>
Unflipped(tile) == <<CornerA(tile), CornerB(tile), CornerC(tile), CornerD(tile)>>
ExpectedUvs(tile) ==
    [k \in 1..4 |->
        Unflipped(tile)[FlipTable(tile.flip_d, tile.flip_h, tile.flip_v)[k]]]

\* C11: the quad of a tile has the UV corner order that diagonal (swap 0-2),
\* then horizontal (reverse), then vertical (reverse, swap 0-2, swap 1-3)
\* give for its flags: diagonal alone [C,B,A,D], horizontal alone [D,C,B,A],
\* and so for each of the 8 flag combinations.
C11_FlipComposition ==
    c_pc = "done" =>
        \A q \in QuadIds : \A tile \in QuadTiles(q) :
            /\ QuadUvs(q) = ExpectedUvs(tile)
            /\ (tile.flip_d /\ ~tile.flip_h /\ ~tile.flip_v) =>
                  QuadUvs(q) = <<CornerC(tile), CornerB(tile), CornerA(tile), CornerD(tile)>>
            /\ (~tile.flip_d /\ tile.flip_h /\ ~tile.flip_v) =>
                  QuadUvs(q) = <<CornerD(tile), CornerC(tile), CornerB(tile), CornerA(tile)>>

\* a mesh holds the quad of a tile with all three flags set, whose four UV
\* corners differ, in the order [A,D,C,B]
C11_Witness ==
    /\ c_pc = "done"
    /\ \E q \in QuadIds : \E tile \in QuadTiles(q) :
          /\ tile.flip_d /\ tile.flip_h /\ tile.flip_v
          /\ Cardinality({CornerA(tile), CornerB(tile), CornerC(tile), CornerD(tile)}) = 4
          /\ QuadUvs(q) = <<CornerA(tile), CornerD(tile), CornerC(tile), CornerB(tile)>>

\* lexicographic order of chunk ids: the order of the loops of lines 315-319
LexLess(a, b) ==
    \E k \in 1..4 : a[k] < b[k] /\ \A j \in 1..(k - 1) : a[j] = b[j]
RECURSIVE LexSorted(_)
LexSorted(S) ==
    IF S = {} THEN <<>>
    ELSE LET least == CHOOSE x \in S : \A y \in S \ {x} : LexLess(x, y)
         IN  <<least>> \o LexSorted(S \ {least})

\* the number of tiles stored in a chunk whose gid is >= the tileset's first_gid
QuadCount(id) ==
    LET chunk == ChunkAt(id)
        guid == layers[id[1]].tileset_layers[id[2]].tileset_guid
    IN  Cardinality(UNION {{<<tx, ty>> : ty \in {y \in 1..Len(chunk.tiles[tx]) :
                                                  chunk.tiles[tx][y].tile_id >= guid}} :
                           tx \in 1..Len(chunk.tiles)})

\* the chunks that hold at least one such tile, in loop order
ProducingChunks == LexSorted({id \in ChunkIds : QuadCount(id) > 0})

\* C12: the mesh records are, in loop order, one per chunk that holds q > 0
\* tiles with gid >= the tileset's first_gid (a chunk with q = 0 gives none);
\* the record is tagged (layer index, first_gid) and has 4q positions, 4q
\* UVs and 6q indices, the k-th quad's indices being
\* [4k, 4k+2, 4k+1, 4k, 4k+3, 4k+2], all below 4q.
C12_OneMeshPerNonEmptyChunk ==
    c_pc = "done" =>
        /\ Len(meshes) = Len(ProducingChunks)
        /\ \A n \in 1..Len(meshes) :
              LET id == ProducingChunks[n]
                  q == QuadCount(id)
                  mesh == meshes[n][3]
              IN  /\ meshes[n][1] = id[1] - 1
                  /\ meshes[n][2] = layers[id[1]].tileset_layers[id[2]].tileset_guid
                  /\ Len(mesh.positions) = 4 * q
                  /\ Len(mesh.uvs) = 4 * q
                  /\ Len(mesh.indices) = 6 * q
                  /\ \A k \in 0..(q - 1) :
                        [j \in 1..6 |-> mesh.indices[6 * k + j]]
                            = <<4 * k, 4 * k + 2, 4 * k + 1, 4 * k, 4 * k + 3, 4 * k + 2>>
                  /\ \A j \in 1..Len(mesh.indices) : mesh.indices[j] < 4 * q

\* two tileset layers of one layer: the first gives one mesh of two quads,
\* the second, which holds no tile of its tileset, gives none
C12_Witness ==
    /\ c_pc = "done"
    /\ Len(layers) = 1 /\ Len(layers[1].tileset_layers) = 2
    /\ Len(meshes) = 1
    /\ QuadCount(<<1, 1, 1, 1>>) = 2 /\ QuadCount(<<1, 2, 1, 1>>) = 0
    /\ Len(meshes[1][3].positions) = 8 /\ Len(meshes[1][3].indices) = 12
    /\ meshes[1][3].indices[7] = 4

\* ------------------------------------------------------------------------
\* The pure functions, called on bounded arguments

\* Bounds of the arguments
MaxGrid == 3
MaxTileSize == 4

GridPositions == (-MaxGrid..MaxGrid) \X (-MaxGrid..MaxGrid)
TileSizes == 1..MaxTileSize

ProjectCalls ==
    [fn : {"project"}, orientation : {"Orthogonal", "Isometric"},
     pos : GridPositions, tile_width : TileSizes, tile_height : TileSizes]

\* Object::spawn's transform, called on bounded objects
ObjectPositions == {<<10, 20>>} \cup ((0..MaxGrid) \X (0..MaxGrid))
ObjectSizes == {<<4, 6>>} \cup (TileSizes \X TileSizes)
MapTransforms ==
    {[translation |-> <<0, 0, 0>>, scale |-> <<1, 1, 1>>],
     [translation |-> <<0, 0, 0>>, scale |-> <<2, 3, 1>>],
     [translation |-> <<WorldScale * 5, -(WorldScale * 7), 1>>, scale |-> <<1, 1, 1>>],
     [translation |-> <<WorldScale * 5, -(WorldScale * 7), 1>>, scale |-> <<2, 3, 1>>]}

\* a shape (gid 0) or a tile object (gid 2 of the 16 x 16 tileset TsA) of
\* each kind, position and size, with or without atlas, on a map of each
\* orientation under each map transform
AllSpawnCalls ==
    {[fn |-> "spawn",
      object |-> ObjectNewWithTileIds(
                    ShapeObject(kind, gid, pos[1], pos[2], size[1], size[2]),
                    BuildTileGids(<<TsA>>, EmptyHash)),
      has_atlas |-> atlas,
      map |-> TiledMap(2, 2, orientation, <<TsA>>, <<>>, <<>>),
      tile_map_transform |-> mt] :
        kind \in {"Rect", "Ellipse", "Point"}, gid \in {0, 2},
        pos \in ObjectPositions, size \in ObjectSizes, atlas \in BOOLEAN,
        orientation \in Orientations, mt \in MapTransforms}

\* Object::spawn is handed an atlas only for an object with a tileset
SpawnCalls == {c \in AllSpawnCalls : c.has_atlas => IsSome(c.object.tileset_gid)}

FnCalls == ProjectCalls \cup SpawnCalls

FnInit ==
    /\ f_pc = "call"
    /\ f_call \in FnCalls
    /\ f_ret = <<>>
    /\ ReconcilerInit
    /\ loader = <<>>
    /\ c_pc = "idle"
    /\ c_map = <<>>
    /\ tile_gids = EmptyHash
    /\ object_gids = {}
    /\ groups = <<>>
    /\ layers = <<>>
    /\ meshes = <<>>

\* Map::project_ortho / Map::project_iso
Project ==
    /\ f_pc = "call"
    /\ f_call.fn = "project"
    /\ f_ret' = [projected |->
                    IF f_call.orientation = "Orthogonal"
                    THEN project_ortho(f_call.pos, f_call.tile_width, f_call.tile_height)
                    ELSE project_iso(f_call.pos, f_call.tile_width, f_call.tile_height)]
    /\ f_pc' = "projected"
    /\ UNCHANGED <<f_call, cvars, rvars>>

\* Map::unproject_ortho / Map::unproject_iso on the projected position
Unproject ==
    /\ f_pc = "projected"
    /\ f_ret' = [projected |-> f_ret.projected,
                 unprojected |->
                    IF f_call.orientation = "Orthogonal"
                    THEN unproject_ortho(f_ret.projected,
                                         f_call.tile_width, f_call.tile_height)
                    ELSE unproject_iso(f_ret.projected,
                                       f_call.tile_width, f_call.tile_height)]
    /\ f_pc' = "unprojected"
    /\ UNCHANGED <<f_call, cvars, rvars>>

\* Object::is_shape, Object::dimensions and the transform of Object::spawn
Spawn ==
    /\ f_pc = "call"
    /\ f_call.fn = "spawn"
    /\ f_ret' = [is_shape |-> is_shape(f_call.object),
                 dimensions |-> dimensions(f_call.object),
                 transform |-> SpawnTransform(f_call.object, f_call.has_atlas,
                                              f_call.map, f_call.tile_map_transform)]
    /\ f_pc' = "spawned"
    /\ UNCHANGED <<f_call, cvars, rvars>>

FnNext == Project \/ Unproject \/ Spawn

SpecFn == FnInit /\ [][FnNext]_vars

\* C13: unproject_ortho(project_ortho(p, w, h), w, h) is p exactly and
\* unproject_iso(project_iso(p, w, h), w, h) is p after its rounding, where
\* project_ortho(p) = (w*x, -(h*y)) and project_iso(p) = ((x-y)*w/2,
\* -(x+y)*h/2) (world coordinates are held times WorldScale).
C13_ProjectRoundTrip ==
    LET x == f_call.pos[1]
        y == f_call.pos[2]
        w == f_call.tile_width
        h == f_call.tile_height
    IN  /\ (f_pc \in {"projected", "unprojected"} /\ f_call.orientation = "Orthogonal") =>
              f_ret.projected = <<WorldScale * (w * x), -(WorldScale * (h * y))>>
        /\ (f_pc \in {"projected", "unprojected"} /\ f_call.orientation = "Isometric") =>
              f_ret.projected = <<(x - y) * w, -((x + y) * h)>>
        /\ (f_pc = "unprojected" /\ f_call.orientation = "Orthogonal") =>
              /\ FracIs(f_ret.unprojected[1], x)
              /\ FracIs(f_ret.unprojected[2], y)
        /\ (f_pc = "unprojected" /\ f_call.orientation = "Isometric") =>
              f_ret.unprojected = <<x, y>>

\* the isometric round trip of (2, -3) with 3 x 4 tiles, whose projection
\* (7.5, 2) is no integer position
C13_Witness ==
    /\ f_pc = "unprojected"
    /\ f_call.orientation = "Isometric"
    /\ f_call.pos = <<2, -3>> /\ f_call.tile_width = 3 /\ f_call.tile_height = 4
    /\ f_ret.projected = <<15, 4>>
    /\ f_ret.unprojected = <<2, -3>>

\* the objects the object graph builder has built: (group, index) pairs
Grouped == c_pc \in {"grouped", "chunked", "done", "panic"}
BuiltObjects ==
    UNION {{<<g, i>> : i \in 1..Len(groups[g].objects)} : g \in 1..Len(groups)}
BuiltObject(gi) == groups[gi[1]].objects[gi[2]]

\* C14: every object the builder makes has tileset_gid set iff sprite_index
\* is set; when set, tileset_gid is what the resolver gives for the object's
\* gid and sprite_index = gid - tileset_gid; an object whose gid resolves to
\* no tileset has both unset and is a shape.
C14_ObjectTileIds ==
    Grouped =>
        \A gi \in BuiltObjects :
            LET o == BuiltObject(gi)
            IN  /\ IsSome(o.tileset_gid) <=> IsSome(o.sprite_index)
                /\ o.tileset_gid = resolve(o.gid)
                /\ IsSome(o.tileset_gid) =>
                      o.sprite_index = <<o.gid - o.tileset_gid[1]>>
                /\ resolve(o.gid) = <<>> =>
                      /\ o.tileset_gid = <<>> /\ o.sprite_index = <<>>
                      /\ is_shape(o)
                /\ is_shape(o) <=> o.tileset_gid = <<>>

\* with one tileset of gids 2..4, the object of gid 3 is sprite 1 of tileset
\* 2 and the object of gid 0 is a shape
C14_Witness ==
    /\ Grouped
    /\ Len(c_map.tilesets) = 1
    /\ c_map.tilesets[1].first_gid = 2 /\ c_map.tilesets[1].tilecount = <<3>>
    /\ Len(groups) = 1
    /\ groups[1].objects[4].gid = 3
    /\ groups[1].objects[4].tileset_gid = <<2>>
    /\ groups[1].objects[4].sprite_index = <<1>>
    /\ ~is_shape(groups[1].objects[4])
    /\ groups[1].objects[1].gid = 0 /\ is_shape(groups[1].objects[1])

\* the calls of Object::spawn that have returned, for an object of a kind
OrthogonalSpawn(kind) ==
    /\ f_pc = "spawned"
    /\ f_call.object.shape.kind = kind
    /\ f_call.map.orientation = "Orthogonal"
\* the translation a rectangle anchored at `anchor` (times WorldScale) gets
\* under the map transform of the call
AnchoredAt(anchor) ==
    <<f_call.tile_map_transform.translation[1]
          + anchor[1] * f_call.tile_map_transform.scale[1],
      f_call.tile_map_transform.translation[2]
          + anchor[2] * f_call.tile_map_transform.scale[2]>>
ShapeAnchor ==
    <<WorldScale * f_call.object.position[1] + f_call.object.shape.width,
      -(WorldScale * f_call.object.position[2]) - f_call.object.shape.height>>
SpriteAnchor ==
    <<WorldScale * f_call.object.position[1] + f_call.object.shape.width,
      -(WorldScale * f_call.object.position[2]) + f_call.object.shape.height>>
TranslationXY == <<f_ret.transform.translation[1], f_ret.transform.translation[2]>>

\* C15: a shape Rect object at (x, y) of size (w, h) on an orthogonal map
\* has is_shape() true, dimensions() = (w, h) and, with tile_scale = None,
\* the translation (x + w/2, -y - h/2) multiplied componentwise by the map
\* scale and added to the map translation; (10, 20) with size (4, 6) gives
\* (12, -23) under the identity.
C15_ShapeRectTransform ==
    (OrthogonalSpawn("Rect") /\ f_call.object.gid = 0) =>
        /\ f_ret.is_shape
        /\ f_ret.dimensions = <<<<f_call.object.shape.width, f_call.object.shape.height>>>>
        /\ TranslationXY = AnchoredAt(ShapeAnchor)
        /\ (/\ f_call.object.position = <<10, 20>>
            /\ dimensions(f_call.object) = <<<<4, 6>>>>
            /\ f_call.tile_map_transform = [translation |-> <<0, 0, 0>>,
                                            scale |-> <<1, 1, 1>>])
           => TranslationXY = <<WorldScale * 12, -(WorldScale * 23)>>

\* the shape of the example under the map transform of scale (2, 3) at
\* (5, -7): translation (5 + 2 * 12, -7 - 3 * 23)
C15_Witness ==
    /\ OrthogonalSpawn("Rect")
    /\ f_call.object.gid = 0 /\ f_ret.is_shape
    /\ f_call.object.position = <<10, 20>>
    /\ f_ret.dimensions = <<<<4, 6>>>>
    /\ f_call.tile_map_transform.scale = <<2, 3, 1>>
    /\ f_call.tile_map_transform.translation[1] = WorldScale * 5
    /\ TranslationXY = <<WorldScale * 29, -(WorldScale * 76)>>

FracEq(a, b) == a[1] * b[2] = b[1] * a[2]
\* the source tileset of the tile object of the call
SourceTileset ==
    CHOOSE ts \in {f_call.map.tilesets[t] : t \in 1..Len(f_call.map.tilesets)} :
        ts.first_gid = f_call.object.tileset_gid[1]
\* the transform a rectangle or ellipse of the call is to get: a shape is
\* anchored at its top-left corner plus half its extent, a tile sprite at its
\* bottom-left corner plus half its extent, with the scale multiplied by
\* object extent / source tile extent
AnchoredByExtent ==
    /\ f_ret.is_shape => TranslationXY = AnchoredAt(ShapeAnchor)
    /\ f_call.has_atlas =>
          /\ TranslationXY = AnchoredAt(SpriteAnchor)
          /\ FracEq(f_ret.transform.scale[1],
                    Frac(f_call.object.shape.width * f_call.tile_map_transform.scale[1],
                         SourceTileset.tile_width))
          /\ FracEq(f_ret.transform.scale[2],
                    Frac(f_call.object.shape.height * f_call.tile_map_transform.scale[2],
                         SourceTileset.tile_height))

\* C16: on an orthogonal map the transform of an Ellipse object is derived
\* as for a rectangle: a shape is anchored at its top-left corner plus half
\* its extent, a tile sprite at its bottom-left corner plus half its extent
\* with the scale multiplied by object extent / source tile extent.
C16_EllipseAsRect ==
    OrthogonalSpawn("Ellipse") => AnchoredByExtent

\* C17: the compilation of a map whose orientation is neither Orthogonal nor
\* Isometric never gets past the chunk builder: it aborts and no artifact is
\* published, whatever the layers hold.
C17_UnsupportedOrientationAborts ==
    c_map.orientation \notin {"Orthogonal", "Isometric"} =>
        c_pc \notin {"chunked", "done"}

\* the tiles of a floor((extent + spacing) / (tile + spacing)) grid
GridFit(extent, tile, spacing) == (extent + spacing) \div (tile + spacing)
\* the texture of the tileset holds all the tiles it declares, in at least
\* one column
TextureHoldsTiles(tileset) ==
    /\ tileset.images # <<>>
    /\ tileset.tilecount # <<>>
    /\ tileset.spacing >= 0
    /\ GridFit(tileset.images[1].width, tileset.tile_width, tileset.spacing) >= 1
    /\ GridFit(tileset.images[1].width, tileset.tile_width, tileset.spacing)
          * GridFit(tileset.images[1].height, tileset.tile_height, tileset.spacing)
          >= tileset.tilecount[1]

\* C18: every non-empty tile the chunk builder emits for a tileset whose
\* texture holds all its tiles has a normalized UV rect: each of the four
\* components lies in [0, 1] (as texel numerators: in [0, texture_width] for
\* u and in [0, texture_height] for v).
C18_UvNormalized ==
    Compiled =>
        \A id \in ChunkIds :
            LET tileset == c_map.tilesets[id[2]]
                chunk == ChunkAt(id)
            IN  TextureHoldsTiles(tileset) =>
                    \A tx \in 1..Len(chunk.tiles) : \A ty \in 1..Len(chunk.tiles[tx]) :
                        LET tile == chunk.tiles[tx][ty]
                        IN  tile.tile_id >= tileset.first_gid =>
                                /\ 0 <= tile.uv[1] /\ tile.uv[1] <= tileset.images[1].width
                                /\ 0 <= tile.uv[3] /\ tile.uv[3] <= tileset.images[1].width
                                /\ 0 <= tile.uv[2] /\ tile.uv[2] <= tileset.images[1].height
                                /\ 0 <= tile.uv[4] /\ tile.uv[4] <= tileset.images[1].height

\* the vertex rect of every tile of an orthogonal map spans
\* x in [tw*x, tw*x + tw + s] and y in [-(th*y) - th - s, -(th*y)] for its
\* global cell (x, y) and its tileset's tile size (tw, th) and spacing s
OrthoVertexRects ==
    (Compiled /\ c_map.orientation = "Orthogonal") =>
        \A id \in ChunkIds :
            LET ts == c_map.tilesets[id[2]]
                chunk == ChunkAt(id)
            IN  \A tx \in 1..Len(chunk.tiles) : \A ty \in 1..Len(chunk.tiles[tx]) :
                    LET tile == chunk.tiles[tx][ty]
                        x == (id[3] - 1) * 32 + tile.pos[1]
                        y == (id[4] - 1) * 32 + tile.pos[2]
                    IN  tile.tile_id >= ts.first_gid =>
                            tile.vertex =
                                <<WorldScale * (ts.tile_width * x),
                                  WorldScale * (-(ts.tile_height * y)
                                                - ts.tile_height - ts.spacing),
                                  WorldScale * (ts.tile_width * x
                                                + ts.tile_width + ts.spacing),
                                  WorldScale * (-(ts.tile_height * y))>>

\* the 2 x 2 single-layer single-tileset map with one unflipped first tile
\* at (1, 0) has been compiled
ScenarioCompiled ==
    /\ c_pc = "done"
    /\ c_map \in ScenarioInputs
\* it gave one chunk and one mesh of 4 vertices and 6 indices with vertex
\* rect x in [16, 32], y in [-16, 0]
ScenarioGeometry ==
    /\ Len(layers) = 1 /\ Len(layers[1].tileset_layers) = 1
    /\ ChunkIds = {<<1, 1, 1, 1>>}
    /\ Len(meshes) = 1
    /\ Len(meshes[1][3].positions) = 4 /\ Len(meshes[1][3].indices) = 6
    /\ {meshes[1][3].positions[k] : k \in 1..4}
          = {<<WorldScale * x, WorldScale * y, 0>> : x \in {16, 32}, y \in {-16, 0}}
\* the UV rect of the one non-empty tile, as texel numerators
ScenarioUv == ChunkAt(<<1, 1, 1, 1>>).tiles[2][1].uv
ScenarioTexture == c_map.tilesets[1].images[1]

\* C19 as stated: orthogonal vertex rects span [tw*x, tw*x + tw + s] by
\* [-(th*y) - th - s, -(th*y)], and the scenario map compiles to one chunk
\* and one mesh of 4 vertices and 6 indices with vertex rect [16,32] x
\* [-16,0] and UV rect [0,0,1,1].
C19_ScenarioUvUnit ==
    /\ OrthoVertexRects
    /\ ScenarioCompiled =>
          /\ ScenarioGeometry
          /\ ScenarioUv = <<0, 0, ScenarioTexture.width, ScenarioTexture.height>>

\* C19 as amended: the same, with UV rect [0, 0, 16/tex_w, 16/tex_h] for a
\* texture of tex_w x tex_h pixels.
C19_ScenarioUvOneTile ==
    /\ OrthoVertexRects
    /\ ScenarioCompiled =>
          /\ ScenarioGeometry
          /\ ScenarioUv = <<0, 0, 16, 16>>

\* the scenario on a 32 x 32 sheet: the UV rect is [0, 0, 1/2, 1/2]
C19_Witness ==
    /\ ScenarioCompiled
    /\ ScenarioGeometry
    /\ ScenarioTexture = [width |-> 32, height |-> 32]
    /\ ScenarioUv = <<0, 0, 16, 16>>
    /\ meshes[1][3].uvs = << <<0, 16>>, <<0, 0>>, <<16, 0>>, <<16, 16>> >>

\* ------------------------------------------------------------------------
\* The batch of one run and the maps it reconciles.

\* the kind of the last notification the batch holds for a map
LastKind(evs, m) ==
    LET idx == {i \in 1..Len(evs) : evs[i].handle = m}
    IN  IF idx = {} THEN "none"
        ELSE evs[CHOOSE i \in idx : \A j \in idx : j <= i].kind

\* the MapReadyEvents a run sent for an attachment point
MapReadyAt(evts, ap) ==
    {i \in 1..Len(evts) :
        /\ evts[i].event = "MapReadyEvent"
        /\ evts[i].map_handle = map_asset[ap]
        /\ evts[i].map_entity_option = parent_option[ap]}

\* the chunk spawns a run queued for one mesh of an attachment point
MeshSpawns(cmds, ap, mesh) ==
    {j \in 1..Len(cmds) :
        /\ cmds[j].op = "spawn_chunk"
        /\ cmds[j].ap = ap
        /\ cmds[j].mesh = mesh}

\* C20: a run takes a map into its changed set exactly when the last
\* notification the batch holds for the map is Created or Modified.  A map
\* it takes is processed once: its mesh list is drained, its pass count
\* moves one step, and each attachment point bound to it gets at most one
\* MapReadyEvent and each drained mesh one chunk spawn, however many
\* notifications the batch holds.  A map it does not take is left as it was:
\* the asset, the registries and material keys of its attachment points are
\* unchanged and nothing is spawned, despawned or announced for them.
C20_LastEventDecides ==
    [][TickRan =>
          \A m \in MapHandles :
              /\ m \in changed_maps' <=> LastKind(events, m) \in {"Created", "Modified"}
              /\ m \in changed_maps' =>
                    /\ maps'[m] # <<>> /\ maps'[m][1].meshes = <<>>
                    /\ passes'[m] = IF passes[m] = 0 THEN 1 ELSE 2
                    /\ \A ap \in AttachmentPoints :
                          map_asset[ap] = m =>
                              /\ Cardinality(MapReadyAt(ready', ap))
                                    = IF maps[m][1].meshes = <<>> THEN 0 ELSE 1
                              /\ \A i \in 1..Len(maps[m][1].meshes) :
                                    Cardinality(MeshSpawns(commands', ap,
                                                           maps[m][1].meshes[i][3])) = 1
              /\ m \notin changed_maps' =>
                    /\ maps'[m] = maps[m]
                    /\ passes'[m] = passes[m]
                    /\ \A ap \in AttachmentPoints :
                          map_asset[ap] = m =>
                              /\ created_entities'[ap] = created_entities[ap]
                              /\ materials_map'[ap] = materials_map[ap]
                              /\ CommandsAbout(commands', ap, RegisteredAt(ap)) = {}
                              /\ MapReadyAt(ready', ap) = {}]_vars

\* the run read a Removed of map 2 followed by a Created of map 2: the
\* Created stands, the map is in the changed set and attachment point 3 was
\* reconciled once
C20_Witness ==
    /\ batch = <<[kind |-> "Removed", handle |-> 2], [kind |-> "Created", handle |-> 2]>>
    /\ events = <<>>
    /\ changed_maps = {2}
    /\ passes[2] = 1
    /\ Cardinality(MapReadyAt(ready, 3)) = 1
    /\ LayerRegistry(3) # <<>>

\* ------------------------------------------------------------------------
\* The attachment points a run touches.

\* the ObjectReadyEvents a run sent for an attachment point
ObjectReadyAt(evts, ap) ==
    {i \in 1..Len(evts) :
        /\ evts[i].event = "ObjectReadyEvent"
        /\ evts[i].map_handle = map_asset[ap]
        /\ evts[i].map_entity_option = parent_option[ap]}

\* the map of the attachment point is one the batch changes, and its mesh
\* list holds a mesh when the run starts
MeshesPending(ap) ==
    /\ LastKind(events, map_asset[ap]) \in {"Created", "Modified"}
    /\ maps[map_asset[ap]] # <<>>
    /\ maps[map_asset[ap]][1].meshes # <<>>

\* C21: a run leaves an attachment point alone unless the run changes its map
\* and the map's mesh list held a mesh when the run started: its registry
\* is unchanged, none of its handles is despawned, nothing is spawned for it
\* and no ObjectReadyEvent or MapReadyEvent is sent for it.  For an
\* attachment point it does not leave alone, the run sends exactly one
\* MapReadyEvent, after every ObjectReadyEvent it sends for it.
C21_OnlyPendingTouched ==
    [][TickRan =>
          \A ap \in AttachmentPoints :
              IF MeshesPending(ap)
              THEN /\ Cardinality(MapReadyAt(ready', ap)) = 1
                   /\ \A i \in ObjectReadyAt(ready', ap) :
                          \A j \in MapReadyAt(ready', ap) : i < j
              ELSE /\ created_entities'[ap] = created_entities[ap]
                   /\ RegisteredAt(ap) \cap despawned' = RegisteredAt(ap) \cap despawned
                   /\ CommandsAbout(commands', ap, RegisteredAt(ap)) = {}
                   /\ ObjectReadyAt(ready', ap) = {}
                   /\ MapReadyAt(ready', ap) = {}]_vars

\* the run read a Created of map 1, compiled from the input without any
\* tile, and a Created of map 2, compiled from an input with objects: the
\* attachment points of map 1 got nothing, attachment point 3 got its
\* ObjectReadyEvents and then its MapReadyEvent
C21_Witness ==
    /\ batch = <<[kind |-> "Created", handle |-> 1], [kind |-> "Created", handle |-> 2]>>
    /\ events = <<>>
    /\ changed_maps = {1, 2}
    /\ maps[1] # <<>> /\ maps[1][1].map = ReconcilerInputs[3]
    /\ LayerRegistry(1) = <<>> /\ LayerRegistry(2) = <<>>
    /\ MapReadyAt(ready, 1) = {} /\ MapReadyAt(ready, 2) = {}
    /\ ObjectReadyAt(ready, 3) # {}
    /\ MapReadyAt(ready, 3) = {Len(ready)}
    /\ LayerRegistry(3) # <<>>

\* ------------------------------------------------------------------------
\* The registries of an attachment point.

\* the places of a registry: a key and a position in the key's entity list
Slots(h) ==
    UNION {{<<k, i>> : i \in 1..Len(h[k])} : k \in DOMAIN h}

\* C22: at every attachment point, every entity recorded in
\* created_layer_entities or created_object_entities is one the reconciler
\* spawned and has not despawned, no entity is recorded at two places (twice
\* under a key, under two keys, or in both registries), and no key of a
\* registry has an empty entity list.
C22_RegistryHoldsLiveEntities ==
    \A ap \in AttachmentPoints :
        /\ RegisteredAt(ap) \subseteq 1..(next_entity - 1)
        /\ RegisteredAt(ap) \cap despawned = {}
        /\ Cardinality(Slots(LayerRegistry(ap))) + Cardinality(Slots(ObjectRegistry(ap)))
              = Cardinality(RegisteredAt(ap))
        /\ \A k \in DOMAIN LayerRegistry(ap) : LayerRegistry(ap)[k] # <<>>
        /\ \A k \in DOMAIN ObjectRegistry(ap) : ObjectRegistry(ap)[k] # <<>>

\* attachment point 3 was reconciled a second time from a recompiled map:
\* the entities of the first pass are despawned, and both registries hold
\* entities of the second
C22_Witness ==
    /\ events = <<>>
    /\ batch = <<[kind |-> "Modified", handle |-> 2]>>
    /\ RegisteredAt(3) \cap despawned = {}
    /\ despawned # {}
    /\ \E e \in despawned : \E cmd \in Range(commands) :
          cmd.op = "despawn" /\ cmd.entity = e
    /\ LayerRegistry(3) # <<>>
    /\ ObjectRegistry(3) # <<>>
    /\ Cardinality(RegisteredAt(3)) >= 2

====
